---- MODULE Spec2Model ----
(***************************************************************************)
(* Check-in decision engine and subscription ledger of the gym manager.   *)
(* The database tables (members, payments, attendance) are the shared     *)
(* state; every request handler runs on one of the server's threads and   *)
(* is split at its database statements, since no handler opens a          *)
(* transaction and the connection runs in autocommit mode.                *)
(***************************************************************************)
EXTENDS Integers, Sequences, FiniteSets, TLC

\* ---------------------------------------------------------------- bounds
\* Calendar days are 0..MaxDay; today is the last of them.
MaxDay == 2
\* Amounts a client submits are 0..MaxAmount.
MaxAmount == 1
\* The payments table holds at most MaxPayments rows.
MaxPayments == 3

\* ------------------------------------------------------ program constants
\* gunicorn serves requests on this many threads of one worker process.
threads == 2

\* A null date (subscription_start, subscription_end are nullable).
NoDate == -1
\* A null attendance_id in the check-in response.
NoId == [n |-> 0]
\* check_out_time of a row nobody has checked out.
NoTime == -1
Dates == 0..MaxDay
Threads == 1..threads
MemberIds == {"m1"}
Roles == {"ADMIN", "STAFF"}

\* ------------------------------------------------------------------ plans
\* ActivityType rows; every plan of the catalogue belongs to the first.
ActivityIds == {"gym", "swim"}

\* MembershipPlan rows: price, duration_days, insurance_required,
\* activity_type.
PlanIds == {"free", "paid"}
Plan ==
  [p \in PlanIds |->
     IF p = "free"
       THEN [price |-> 0, duration_days |-> 1, insurance_required |-> FALSE,
             activity_type |-> "gym"]
       ELSE [price |-> 2, duration_days |-> 1, insurance_required |-> TRUE,
             activity_type |-> "gym"]]

VARIABLES
  today,        \* timezone.now().date()
  members,      \* table members: id -> row, or NoMember when no such row
  payments,     \* table payments: set of rows
  attendances,  \* table attendance: set of rows
  pc,           \* per thread: the statement the handler is at
  req,          \* per thread: the request being served (kept after the response)
  loc,          \* per thread: the handler's in-memory Member instance
  dec,          \* per thread: the CheckInDecision held by the handler
  resp          \* per thread: the response (kept until the next request)

vars == <<today, members, payments, attendances, pc, req, loc, dec, resp>>

NoReq == [op |-> "none"]
NoMember == [exists |-> FALSE]
NoDecision == [result |-> "none"]
NoResp == [status |-> 0]

\* ------------------------------------------------------- Member properties
membership_status(mem, day) ==
  IF mem.subscription_start = NoDate \/ mem.subscription_end = NoDate
    THEN "PENDING"
    ELSE IF day <= mem.subscription_end THEN "ACTIVE" ELSE "EXPIRED"

Max(a, b) == IF a >= b THEN a ELSE b

remaining_debt(mem) ==
  Max(Plan[mem.membership_plan].price - mem.amount_paid, 0)

\* ---------------------------------------------------------- check-in engine
RECURSIVE Join(_)
Join(s) ==
  IF s = <<>> THEN ""
  ELSE IF Len(s) = 1 THEN s[1]
  ELSE s[1] \o "," \o Join(Tail(s))

is_already_checked_in(m, day) ==
  \E a \in attendances : a.member = m /\ a.date = day

Decision(result, reason, message, can_override) ==
  [result |-> result, reason |-> reason, message |-> message,
   can_override |-> can_override]

\* Mutant: collecting stops at the first warning.
warning_reasons_first_only(mem) ==
  IF remaining_debt(mem) > 0 THEN <<"debt">>
  ELSE IF Plan[mem.membership_plan].insurance_required /\ ~mem.insurance_paid
    THEN <<"insurance">>
  ELSE <<>>

warning_reasons(mem) ==
  (IF remaining_debt(mem) > 0 THEN <<"debt">> ELSE <<>>)
  \o (IF Plan[mem.membership_plan].insurance_required /\ ~mem.insurance_paid
        THEN <<"insurance">> ELSE <<>>)

\* Mutant: the suspension rule is tried before the already-checked-in rule.
evaluate_inactive_first(mem, checked_in, day) ==
  IF ~mem.is_active
    THEN Decision("blocked", "inactive", "suspended", TRUE)
  ELSE IF checked_in
    THEN Decision("blocked", "already_checked_in", "already checked in", FALSE)
  ELSE IF membership_status(mem, day) = "EXPIRED"
    THEN Decision("blocked", "expired", "expired", TRUE)
  ELSE IF membership_status(mem, day) = "PENDING"
    THEN Decision("blocked", "pending", "no active subscription", TRUE)
  ELSE IF warning_reasons(mem) # <<>>
    THEN Decision("warning", Join(warning_reasons(mem)), "proceed?", FALSE)
  ELSE Decision("allowed", "ok", "check-in allowed", FALSE)

\* Mutant: the warnings are collected before the expired and pending rules.
evaluate_warnings_early(mem, checked_in, day) ==
  IF checked_in
    THEN Decision("blocked", "already_checked_in", "already checked in", FALSE)
  ELSE IF ~mem.is_active
    THEN Decision("blocked", "inactive", "suspended", TRUE)
  ELSE IF warning_reasons(mem) # <<>>
    THEN Decision("warning", Join(warning_reasons(mem)), "proceed?", FALSE)
  ELSE IF membership_status(mem, day) = "EXPIRED"
    THEN Decision("blocked", "expired", "expired", TRUE)
  ELSE IF membership_status(mem, day) = "PENDING"
    THEN Decision("blocked", "pending", "no active subscription", TRUE)
  ELSE Decision("allowed", "ok", "check-in allowed", FALSE)

evaluate(mem, checked_in, day) ==
  IF checked_in
    THEN Decision("blocked", "already_checked_in", "already checked in", FALSE)
  ELSE IF ~mem.is_active
    THEN Decision("blocked", "inactive", "suspended", TRUE)
  ELSE IF membership_status(mem, day) = "EXPIRED"
    THEN Decision("blocked", "expired", "expired", TRUE)
  ELSE IF membership_status(mem, day) = "PENDING"
    THEN Decision("blocked", "pending", "no active subscription", TRUE)
  ELSE IF warning_reasons(mem) # <<>>
    THEN Decision("warning", Join(warning_reasons(mem)), "proceed?", FALSE)
  ELSE Decision("allowed", "ok", "check-in allowed", FALSE)

\* Mutant: the row always records an allowed check-in.
checkin_row_always_allowed(id, m, mem, day, d, r) ==
  [id |-> id, member |-> m, date |-> day,
   recorded_by |-> r.role,
   status_at_entry |-> membership_status(mem, day),
   debt_at_entry |-> remaining_debt(mem),
   insurance_paid_at_entry |-> mem.insurance_paid,
   checkin_result |-> "allowed",
   checkin_reason |-> d.reason,
   override_used |-> r.override,
   override_reason |-> IF r.override THEN r.override_reason ELSE "",
   check_out_time |-> NoTime]

\* The row Attendance.objects.create writes in perform_checkin.
checkin_row(id, m, mem, day, d, r) ==
  [id |-> id, member |-> m, date |-> day,
   recorded_by |-> r.role,
   status_at_entry |-> membership_status(mem, day),
   debt_at_entry |-> remaining_debt(mem),
   insurance_paid_at_entry |-> mem.insurance_paid,
   checkin_result |-> IF r.override THEN "allowed" ELSE d.result,
   checkin_reason |-> d.reason,
   override_used |-> r.override,
   override_reason |-> IF r.override THEN r.override_reason ELSE "",
   check_out_time |-> NoTime]

\* Mutant: the table has no unique index.
unique_violation_never(m, day) == FALSE

\* The unique index on (member, date): an insert of a second row fails.
unique_violation(m, day) ==
  \E a \in attendances : a.member = m /\ a.date = day

\* The id of the next row for (member, date); ids are opaque, and numbering
\* the rows of one day keeps the table independent of the insertion order.
next_attendance_id(m, day) ==
  [member |-> m, date |-> day,
   n |-> Cardinality({a \in attendances : a.id.member = m /\ a.id.date = day}) + 1]

\* ------------------------------------------- SmartCheckInView.post, by steps
\* get_object_or_404(Member, id=member_id)
CheckInFetch(w) ==
  /\ pc[w] = "idle"
  /\ \E m \in MemberIds, ov \in BOOLEAN, rs \in {"", "r"}, role \in Roles :
       /\ members[m] # NoMember
       /\ (~ov => rs = "")
       /\ req' = [req EXCEPT ![w] =
                    [op |-> "checkin", member |-> m, override |-> ov,
                     override_reason |-> rs, role |-> role,
                     row_at_start |-> is_already_checked_in(m, today)]]
       /\ loc' = [loc EXCEPT ![w] = members[m]]
  /\ pc' = [pc EXCEPT ![w] = "view_evaluate"]
  /\ dec' = [dec EXCEPT ![w] = NoDecision]
  /\ resp' = [resp EXCEPT ![w] = NoResp]
  /\ UNCHANGED <<today, members, payments, attendances>>

\* engine.evaluate() in the view, and the early return of a blocked decision
CheckInViewEvaluate(w) ==
  /\ pc[w] = "view_evaluate"
  /\ LET d == evaluate(loc[w], is_already_checked_in(req[w].member, today), today)
         data == [status |-> 200, result |-> d.result, reason |-> d.reason,
                  message |-> d.message, can_override |-> d.can_override,
                  attendance_id |-> NoId]
     IN /\ resp' = [resp EXCEPT ![w] = data]
        /\ IF d.result = "blocked" /\ ~req[w].override
             THEN /\ pc' = [pc EXCEPT ![w] = "idle"]
                  /\ loc' = [loc EXCEPT ![w] = NoMember]
                  /\ dec' = [dec EXCEPT ![w] = NoDecision]
             ELSE /\ pc' = [pc EXCEPT ![w] = "perform_evaluate"]
                  /\ dec' = [dec EXCEPT ![w] = d]
                  /\ UNCHANGED loc
  /\ UNCHANGED <<today, members, payments, attendances, req>>

\* Mutant: the gate does not ask for the admin role.
override_gate_any_role(d, r) ==
  IF d.result = "blocked" /\ ~r.override THEN "return"
  ELSE IF d.result = "blocked" /\ r.override_reason = "" THEN "no_reason"
  ELSE "create"

\* perform_checkin's gate between the decision and the insert: "return" hands
\* the decision back untouched, "not_admin" and "no_reason" hand it back with
\* a new message, "create" goes on to the insert.
override_gate(d, r) ==
  IF d.result = "blocked" /\ ~r.override THEN "return"
  ELSE IF d.result = "blocked" /\ r.role # "ADMIN" THEN "not_admin"
  ELSE IF d.result = "blocked" /\ r.override_reason = "" THEN "no_reason"
  ELSE "create"

\* perform_checkin up to the insert: the second evaluation and the override gate
PerformCheckinEvaluate(w) ==
  /\ pc[w] = "perform_evaluate"
  /\ LET d == evaluate(loc[w], is_already_checked_in(req[w].member, today), today)
         g == override_gate(d, req[w])
     IN IF g = "create"
          THEN /\ dec' = [dec EXCEPT ![w] = d]
               /\ pc' = [pc EXCEPT ![w] = "perform_create"]
               /\ UNCHANGED <<loc, resp>>
          ELSE /\ resp' = [resp EXCEPT ![w].message =
                             IF g = "not_admin" THEN "only admin can override"
                             ELSE IF g = "no_reason" THEN "override reason is required"
                             ELSE d.message]
               /\ pc' = [pc EXCEPT ![w] = "idle"]
               /\ loc' = [loc EXCEPT ![w] = NoMember]
               /\ dec' = [dec EXCEPT ![w] = NoDecision]
  /\ UNCHANGED <<today, members, payments, attendances, req>>

\* Attendance.objects.create in perform_checkin, and the view's handling of
\* its result: the row's id, or the unique violation caught by the view
PerformCheckinCreate(w) ==
  /\ pc[w] = "perform_create"
  /\ LET m == req[w].member
         d == dec[w]
     IN IF unique_violation(m, today)
          THEN /\ resp' = [resp EXCEPT ![w].result = "blocked",
                                       ![w].reason = "already_checked_in",
                                       ![w].message = "already checked in"]
               /\ UNCHANGED attendances
          ELSE /\ attendances' = attendances \cup
                    {checkin_row(next_attendance_id(m, today), m, loc[w], today, d, req[w])}
               /\ resp' = [resp EXCEPT
                    ![w].attendance_id = next_attendance_id(m, today),
                    ![w].result = IF d.result = "warning" THEN "warning"
                                  ELSE IF req[w].override THEN "allowed"
                                  ELSE d.result,
                    ![w].message = IF d.result = "warning" THEN "checked in with warnings"
                                   ELSE IF req[w].override THEN "checked in (admin override)"
                                   ELSE "checked in successfully"]
  /\ pc' = [pc EXCEPT ![w] = "idle"]
  /\ loc' = [loc EXCEPT ![w] = NoMember]
  /\ dec' = [dec EXCEPT ![w] = NoDecision]
  /\ UNCHANGED <<today, members, payments, req>>

\* ------------------------------------- AttendanceViewSet.create, by steps
\* The row a plain POST to the attendance endpoint writes: the snapshot,
\* decision and override fields are read-only and take the model defaults.
crud_row(id, m, day, role) ==
  [id |-> id, member |-> m, date |-> day,
   recorded_by |-> role,
   status_at_entry |-> "",
   debt_at_entry |-> 0,
   insurance_paid_at_entry |-> FALSE,
   checkin_result |-> "allowed",
   checkin_reason |-> "",
   override_used |-> FALSE,
   override_reason |-> "",
   check_out_time |-> NoTime]

\* serializer.is_valid(): the unique-together validator of (member, date)
AttendanceValidate(w) ==
  /\ pc[w] = "idle"
  /\ \E m \in MemberIds, day \in {today - 1, today}, role \in Roles :
       /\ members[m] # NoMember
       /\ req' = [req EXCEPT ![w] =
                    [op |-> "attendance_create", member |-> m, date |-> day,
                     role |-> role]]
       /\ IF is_already_checked_in(m, day)
            THEN /\ resp' = [resp EXCEPT ![w] = [status |-> 400]]
                 /\ pc' = [pc EXCEPT ![w] = "idle"]
            ELSE /\ resp' = [resp EXCEPT ![w] = NoResp]
                 /\ pc' = [pc EXCEPT ![w] = "attendance_save"]
  /\ UNCHANGED <<today, members, payments, attendances, loc, dec>>

\* perform_create: serializer.save(), the insert
AttendanceSave(w) ==
  /\ pc[w] = "attendance_save"
  /\ IF unique_violation(req[w].member, req[w].date)
       THEN /\ resp' = [resp EXCEPT ![w] = [status |-> 500]]
            /\ UNCHANGED attendances
       ELSE /\ attendances' = attendances \cup
                 {crud_row(next_attendance_id(req[w].member, req[w].date),
                           req[w].member, req[w].date, req[w].role)}
            /\ resp' = [resp EXCEPT ![w] =
                          [status |-> 201,
                           attendance_id |-> next_attendance_id(req[w].member, req[w].date)]]
  /\ pc' = [pc EXCEPT ![w] = "idle"]
  /\ UNCHANGED <<today, members, payments, req, loc, dec>>

\* ------------------------------------------------------- Payment recording
RECURSIVE SumAmounts(_)
SumAmounts(rows) ==
  IF rows = {} THEN 0
  ELSE LET p == CHOOSE x \in rows : TRUE
       IN p.amount + SumAmounts(rows \ {p})

\* The n-th Payment row of a member with the same window and amount.
payment_row(m, ps, pe, amt) ==
  [member |-> m, period_start |-> ps, period_end |-> pe, amount |-> amt,
   n |-> Cardinality({p \in payments : /\ p.member = m
                                       /\ p.period_start = ps
                                       /\ p.period_end = pe
                                       /\ p.amount = amt}) + 1]

\* Payment.save after the insert of a new row: the assignments it makes to
\* its in-memory member instance.
payment_save_always_accumulate(mem, ps, pe, amt) ==
  [mem EXCEPT !.subscription_start = ps,
              !.subscription_end = pe,
              !.amount_paid = mem.amount_paid + amt]

payment_save(mem, ps, pe, amt) ==
  LET is_new_period == \/ mem.subscription_start # ps
                       \/ mem.subscription_end # pe
  IN IF is_new_period
       THEN [mem EXCEPT !.subscription_start = ps,
                        !.subscription_end = pe,
                        !.amount_paid = amt]
       ELSE [mem EXCEPT !.amount_paid = mem.amount_paid + amt]

\* member.save(update_fields=[subscription_start, subscription_end,
\* amount_paid]): the row keeps its other columns.
save_ledger_fields(row, mem) ==
  [row EXCEPT !.subscription_start = mem.subscription_start,
              !.subscription_end = mem.subscription_end,
              !.amount_paid = mem.amount_paid]

\* A handler starts on thread w with request r.  base is the member row at
\* that moment, alone tells whether the other threads were idle, overlaps
\* counts the requests of other threads that ran while this one did.
InFlight(w) == {v \in Threads \ {w} : pc[v] # "idle"}

StartRequest(w, r, row) ==
  req' = [v \in Threads |->
            IF v = w
              THEN [op |-> r.op, member |-> r.member, plan |-> r.plan,
                    period_start |-> r.period_start,
                    period_end |-> r.period_end,
                    amount |-> r.amount, plan_id |-> r.plan_id,
                    custom |-> r.custom, start |-> r.start,
                    base |-> row, alone |-> InFlight(w) = {},
                    overlaps |-> Cardinality(InFlight(w))]
            ELSE IF pc[v] # "idle"
              THEN [req[v] EXCEPT !.overlaps = IF @ < 2 THEN @ + 1 ELSE @]
              ELSE req[v]]

\* Room for the row each running handler may still insert.
RoomForPayment(w) ==
  Cardinality(payments) + Cardinality(InFlight(w)) < MaxPayments

\* Payment.save, first statement: the insert.
PaymentInsert(w) ==
  /\ pc[w] = "payment_insert"
  /\ payments' = payments \cup
       {payment_row(req[w].member, req[w].period_start, req[w].period_end,
                    req[w].amount)}
  /\ pc' = [pc EXCEPT ![w] = "payment_member_save"]
  /\ UNCHANGED <<today, members, attendances, req, loc, dec, resp>>

\* Payment.save, the rest: the period test on the member instance the
\* handler holds, then the write of the three columns.
PaymentMemberSave(w) ==
  /\ pc[w] = "payment_member_save"
  /\ LET mem == payment_save(loc[w], req[w].period_start, req[w].period_end,
                             req[w].amount)
     IN /\ loc' = [loc EXCEPT ![w] = mem]
        /\ members' = [members EXCEPT ![req[w].member] =
                         save_ledger_fields(@, mem)]
  /\ IF req[w].op \in {"renew", "add_payment"}
       THEN /\ pc' = [pc EXCEPT ![w] = IF req[w].op = "renew"
                                          THEN "renew_member_save"
                                          ELSE "add_payment_respond"]
            /\ UNCHANGED resp
       ELSE /\ pc' = [pc EXCEPT ![w] = "idle"]
            /\ resp' = [resp EXCEPT ![w] = [status |-> 201]]
  /\ UNCHANGED <<today, payments, attendances, req, dec>>

\* Payment.save when the write of the member raises (the database refuses
\* or loses the statement): nothing in Payment.save, the views or the
\* settings opens a transaction, so the insert stays committed and the
\* request answers 500.  payment is the row the request had inserted.
PaymentMemberSaveFails(w) ==
  /\ pc[w] = "payment_member_save"
  /\ resp' = [resp EXCEPT ![w] =
       [status |-> 500,
        payment |-> [member |-> req[w].member,
                     period_start |-> req[w].period_start,
                     period_end |-> req[w].period_end,
                     amount |-> req[w].amount,
                     n |-> Cardinality({p \in payments :
                                          /\ p.member = req[w].member
                                          /\ p.period_start = req[w].period_start
                                          /\ p.period_end = req[w].period_end
                                          /\ p.amount = req[w].amount})]]]
  /\ pc' = [pc EXCEPT ![w] = "idle"]
  /\ UNCHANGED <<today, members, payments, attendances, req, loc, dec>>

\* Windows a client of POST /payments submits.
ClientWindows == {<<d, d + 1>> : d \in Dates}

\* PaymentViewSet.create: the serializer validates the body and loads the
\* member; perform_create then saves the Payment.
PaymentCreate(w) ==
  /\ pc[w] = "idle"
  /\ RoomForPayment(w)
  /\ \E m \in MemberIds, win \in ClientWindows, amt \in 0..MaxAmount :
       /\ members[m] # NoMember
       /\ StartRequest(w, [op |-> "payment", member |-> m,
                           plan |-> members[m].membership_plan,
                           period_start |-> win[1], period_end |-> win[2],
                           amount |-> amt, plan_id |-> "none",
                           custom |-> 0, start |-> NoDate], members[m])
       /\ IF amt <= 0
            THEN /\ resp' = [resp EXCEPT ![w] = [status |-> 400]]
                 /\ UNCHANGED <<pc, loc>>
            ELSE /\ loc' = [loc EXCEPT ![w] = members[m]]
                 /\ pc' = [pc EXCEPT ![w] = "payment_insert"]
                 /\ resp' = [resp EXCEPT ![w] = NoResp]
  /\ UNCHANGED <<today, members, payments, attendances, dec>>

\* add_payment: the window of the Payment is the member's own.
add_payment_window(mem, day) ==
  <<IF mem.subscription_start # NoDate THEN mem.subscription_start ELSE day,
    IF mem.subscription_end # NoDate THEN mem.subscription_end ELSE day>>

\* The member part of add_payment's answer.
add_payment_response_unclamped(mem) ==
  [status |-> 201,
   total_price |-> Plan[mem.membership_plan].price,
   amount_paid |-> mem.amount_paid,
   remaining_debt |-> Plan[mem.membership_plan].price - mem.amount_paid]

add_payment_response(mem) ==
  [status |-> 201,
   total_price |-> Plan[mem.membership_plan].price,
   amount_paid |-> mem.amount_paid,
   remaining_debt |-> remaining_debt(mem)]

\* member.refresh_from_db(), then the answer.
AddPaymentRespond(w) ==
  /\ pc[w] = "add_payment_respond"
  /\ loc' = [loc EXCEPT ![w] = members[req[w].member]]
  /\ resp' = [resp EXCEPT ![w] = add_payment_response(members[req[w].member])]
  /\ pc' = [pc EXCEPT ![w] = "idle"]
  /\ UNCHANGED <<today, members, payments, attendances, req, dec>>

AddPayment(w) ==
  /\ pc[w] = "idle"
  /\ RoomForPayment(w)
  /\ \E m \in MemberIds, amt \in 0..MaxAmount :
       /\ members[m] # NoMember
       /\ LET win == add_payment_window(members[m], today)
          IN StartRequest(w, [op |-> "add_payment", member |-> m,
                              plan |-> members[m].membership_plan,
                              period_start |-> win[1], period_end |-> win[2],
                              amount |-> amt, plan_id |-> "none",
                           custom |-> 0, start |-> NoDate], members[m])
       /\ IF amt <= 0
            THEN /\ resp' = [resp EXCEPT ![w] = [status |-> 400]]
                 /\ UNCHANGED <<pc, loc>>
            ELSE /\ loc' = [loc EXCEPT ![w] = members[m]]
                 /\ pc' = [pc EXCEPT ![w] = "payment_insert"]
                 /\ resp' = [resp EXCEPT ![w] = NoResp]
  /\ UNCHANGED <<today, members, payments, attendances, dec>>

\* ---------------------------------- MemberViewSet.renew_subscription, by steps
\* The window of a renewal.
renew_window_from_today(mem, plan, day) ==
  <<day, day + Plan[plan].duration_days>>

\* If active, extend; if expired, restart.
renew_window(mem, plan, day) ==
  LET start_date == IF mem.subscription_end # NoDate /\ mem.subscription_end >= day
                      THEN mem.subscription_end + 1
                      ELSE day
  IN <<start_date, start_date + Plan[plan].duration_days>>

\* The amount of the renewal Payment: the request's amount when it is given
\* and not zero (float(custom_amount), of either sign), else the plan price.
renew_amount(plan, custom) ==
  IF custom # 0 THEN custom ELSE Plan[plan].price

\* What the renewal itself assigns.
renew_assign_adds(mem, win, plan, amt) ==
  [mem EXCEPT !.subscription_start = win[1],
              !.subscription_end = win[2],
              !.amount_paid = IF Plan[plan].price > 0 THEN mem.amount_paid + amt ELSE 0]

\* The view's own assignments to the member instance after the Payment.
renew_assign(mem, win, plan, amt) ==
  [mem EXCEPT !.subscription_start = win[1],
              !.subscription_end = win[2],
              !.amount_paid = IF Plan[plan].price > 0 THEN amt ELSE 0]

\* get_object, the optional change of plan on the instance, the window, and
\* the amount.  Windows start no later than the day after MaxDay.
RenewStart(w, activity_type_id) ==
  /\ pc[w] = "idle"
  /\ RoomForPayment(w)
  /\ \E m \in MemberIds, plan_id \in PlanIds \cup {"none"},
        custom \in -1..MaxAmount :
       /\ members[m] # NoMember
       /\ LET act == IF activity_type_id # "none"
                       THEN [members[m] EXCEPT !.activity_type = activity_type_id]
                       ELSE members[m]
              mem == IF plan_id # "none"
                       THEN [act EXCEPT !.membership_plan = plan_id]
                       ELSE act
              plan == mem.membership_plan
              win == renew_window(mem, plan, today)
          IN /\ win[1] <= MaxDay + 1
             /\ StartRequest(w, [op |-> "renew", member |-> m, plan |-> plan,
                                 period_start |-> win[1],
                                 period_end |-> win[2],
                                 amount |-> renew_amount(plan, custom),
                                 plan_id |-> plan_id, custom |-> custom,
                                 start |-> NoDate],
                          members[m])
             /\ loc' = [loc EXCEPT ![w] = mem]
             /\ pc' = [pc EXCEPT ![w] = IF Plan[plan].price > 0
                                          THEN "payment_insert"
                                          ELSE "renew_member_save"]
  /\ resp' = [resp EXCEPT ![w] = NoResp]
  /\ UNCHANGED <<today, members, payments, attendances, dec>>

\* A renewal whose body has no activity_type_id.
RenewFetch(w) == RenewStart(w, "none")

\* A renewal whose body names an activity type.
RenewFetchActivity(w) == \E a \in ActivityIds : RenewStart(w, a)

\* Mutant: the view answers without its final save of the member.
RenewMemberSaveSkipped(w) ==
  /\ pc[w] = "renew_member_save"
  /\ resp' = [resp EXCEPT ![w] = [status |-> 200]]
  /\ pc' = [pc EXCEPT ![w] = "idle"]
  /\ UNCHANGED <<today, members, payments, attendances, req, loc, dec>>

\* The end of the view: with a priced plan and an amount taken from the
\* request, plan.price - amount subtracts a float from a Decimal and raises,
\* so the view answers 500 with the Payment already recorded; otherwise
\* member.save() writes every column of the instance.
RenewMemberSave(w) ==
  /\ pc[w] = "renew_member_save"
  /\ IF Plan[req[w].plan].price > 0 /\ req[w].custom # 0
       THEN /\ resp' = [resp EXCEPT ![w] = [status |-> 500]]
            /\ UNCHANGED <<members, loc>>
       ELSE LET mem == renew_assign(loc[w],
                                    <<req[w].period_start, req[w].period_end>>,
                                    req[w].plan, req[w].amount)
            IN /\ loc' = [loc EXCEPT ![w] = mem]
               /\ members' = [members EXCEPT ![req[w].member] = mem]
               /\ resp' = [resp EXCEPT ![w] = [status |-> 200]]
  /\ pc' = [pc EXCEPT ![w] = "idle"]
  /\ UNCHANGED <<today, payments, attendances, req, dec>>

\* ------------------------------------- MemberViewSet.perform_create, by steps
\* serializer.save: the member row, with the amount_paid the client sent.
EnrollSave(w) ==
  /\ pc[w] = "idle"
  /\ RoomForPayment(w)
  /\ \E m \in MemberIds, p \in PlanIds, start \in Dates \cup {NoDate},
        paid \in 0..MaxAmount :
       /\ members[m] = NoMember
       /\ LET subscription_start == IF start = NoDate THEN today ELSE start
              subscription_end == subscription_start + Plan[p].duration_days
              row == [is_active |-> TRUE,
                      subscription_start |-> subscription_start,
                      subscription_end |-> subscription_end,
                      amount_paid |-> paid,
                      membership_plan |-> p,
                      activity_type |-> Plan[p].activity_type,
                      insurance_paid |-> FALSE]
          IN /\ members' = [members EXCEPT ![m] = row]
             /\ loc' = [loc EXCEPT ![w] = row]
             /\ StartRequest(w, [op |-> "enroll", member |-> m, plan |-> p,
                                 period_start |-> subscription_start,
                                 period_end |-> subscription_end,
                                 amount |-> Plan[p].price,
                                 plan_id |-> p, custom |-> 0,
                                 start |-> start], row)
             /\ IF Plan[p].price > 0
                  THEN /\ pc' = [pc EXCEPT ![w] = "enroll_reset"]
                       /\ resp' = [resp EXCEPT ![w] = NoResp]
                  ELSE /\ resp' = [resp EXCEPT ![w] = [status |-> 201]]
                       /\ UNCHANGED pc
  /\ UNCHANGED <<today, payments, attendances, dec>>

\* member.amount_paid = 0, before the Payment is created.
enroll_reset_kept(mem) == mem

enroll_reset(mem) == [mem EXCEPT !.amount_paid = 0]

\* member.amount_paid = 0; member.save(update_fields=['amount_paid']).
EnrollReset(w) ==
  /\ pc[w] = "enroll_reset"
  /\ loc' = [loc EXCEPT ![w] = enroll_reset(loc[w])]
  /\ members' = [members EXCEPT ![req[w].member].amount_paid =
                                  enroll_reset(loc[w]).amount_paid]
  /\ pc' = [pc EXCEPT ![w] = "payment_insert"]
  /\ UNCHANGED <<today, payments, attendances, req, dec, resp>>

\* ------------------------------------------ member API: update, toggle_active
\* The fields of a PATCH body take the place of the instance's.
apply_patch(mem, patch) ==
  [f \in DOMAIN mem |-> IF f \in DOMAIN patch THEN patch[f] ELSE mem[f]]

\* MemberViewSet.partial_update: get_object, then the serializer sets the
\* writable fields of the body on the instance (subscription_end is
\* read-only) and saves every column.
MemberUpdateFetch(w) ==
  /\ pc[w] = "idle"
  /\ \E m \in MemberIds :
       /\ members[m] # NoMember
       /\ \E patch \in {[amount_paid |-> a] : a \in 0..MaxAmount}
                     \cup {[subscription_start |-> 0]}
                     \cup {[membership_plan |-> p] : p \in PlanIds} :
            req' = [req EXCEPT ![w] =
                      [op |-> "member_update", member |-> m, patch |-> patch]]
       /\ loc' = [loc EXCEPT ![w] = members[m]]
  /\ pc' = [pc EXCEPT ![w] = "member_update_save"]
  /\ resp' = [resp EXCEPT ![w] = NoResp]
  /\ UNCHANGED <<today, members, payments, attendances, dec>>

MemberUpdateSave(w) ==
  /\ pc[w] = "member_update_save"
  /\ LET mem == apply_patch(loc[w], req[w].patch)
     IN /\ loc' = [loc EXCEPT ![w] = mem]
        /\ members' = [members EXCEPT ![req[w].member] = mem]
  /\ pc' = [pc EXCEPT ![w] = "idle"]
  /\ resp' = [resp EXCEPT ![w] = [status |-> 200]]
  /\ UNCHANGED <<today, payments, attendances, req, dec>>

\* Bodies of a PATCH that touch the catalogue fields.
CatalogPatches ==
  {[activity_type |-> a] : a \in ActivityIds}
    \cup {[membership_plan |-> p] : p \in PlanIds}
    \cup {[activity_type |-> a, membership_plan |-> p] : a \in ActivityIds, p \in PlanIds}

\* MemberSerializer.validate: the plan is compared with the activity type
\* only when the body holds both.
validate(data) ==
  ("activity_type" \in DOMAIN data /\ "membership_plan" \in DOMAIN data) =>
    Plan[data.membership_plan].activity_type = data.activity_type

\* MemberViewSet.update / partial_update with a body on the catalogue
\* fields: 400 when validate refuses it, else on to the save.
MemberUpdateCatalog(w) ==
  /\ pc[w] = "idle"
  /\ \E m \in MemberIds, patch \in CatalogPatches :
       /\ members[m] # NoMember
       /\ req' = [req EXCEPT ![w] =
                    [op |-> "member_update", member |-> m, patch |-> patch]]
       /\ IF validate(patch)
            THEN /\ loc' = [loc EXCEPT ![w] = members[m]]
                 /\ pc' = [pc EXCEPT ![w] = "member_update_save"]
                 /\ resp' = [resp EXCEPT ![w] = NoResp]
            ELSE /\ resp' = [resp EXCEPT ![w] = [status |-> 400]]
                 /\ UNCHANGED <<pc, loc>>
  /\ UNCHANGED <<today, members, payments, attendances, dec>>

\* MemberViewSet.toggle_active: get_object, flip is_active, save that column.
ToggleActiveFetch(w) ==
  /\ pc[w] = "idle"
  /\ \E m \in MemberIds :
       /\ members[m] # NoMember
       /\ req' = [req EXCEPT ![w] = [op |-> "toggle_active", member |-> m]]
       /\ loc' = [loc EXCEPT ![w] = [members[m] EXCEPT !.is_active = ~@]]
  /\ pc' = [pc EXCEPT ![w] = "toggle_active_save"]
  /\ resp' = [resp EXCEPT ![w] = NoResp]
  /\ UNCHANGED <<today, members, payments, attendances, dec>>

ToggleActiveSave(w) ==
  /\ pc[w] = "toggle_active_save"
  /\ members' = [members EXCEPT ![req[w].member].is_active = loc[w].is_active]
  /\ pc' = [pc EXCEPT ![w] = "idle"]
  /\ resp' = [resp EXCEPT ![w] = [status |-> 200]]
  /\ UNCHANGED <<today, payments, attendances, req, loc, dec>>

MemberStep(w) ==
  \/ MemberUpdateFetch(w)
  \/ MemberUpdateSave(w)
  \/ ToggleActiveFetch(w)
  \/ ToggleActiveSave(w)

\* ------------------------------ AttendanceViewSet.partial_update, by steps
\* Bodies of a PATCH: member, date, check_in_time and check_out_time are the
\* serializer's writable fields.
AttendancePatches ==
  {[date |-> d] : d \in {today - 1, today}} \cup {[check_out_time |-> 1]}

\* get_object, then the serializer's validation: another row with the
\* member and date the body leaves is refused.
AttendanceUpdateValidate(w) ==
  /\ pc[w] = "idle"
  /\ \E a \in attendances, patch \in AttendancePatches :
       LET row == apply_patch(a, patch)
       IN /\ req' = [req EXCEPT ![w] =
                       [op |-> "attendance_update", member |-> a.member,
                        old |-> a, new |-> row]]
          /\ IF \E b \in attendances \ {a} : b.member = row.member /\ b.date = row.date
               THEN /\ resp' = [resp EXCEPT ![w] = [status |-> 400]]
                    /\ UNCHANGED pc
               ELSE /\ resp' = [resp EXCEPT ![w] = NoResp]
                    /\ pc' = [pc EXCEPT ![w] = "attendance_update_save"]
  /\ UNCHANGED <<today, members, payments, attendances, loc, dec>>

\* instance.save(): the row with the primary key takes the instance's columns.
AttendanceUpdateSave(w) ==
  /\ pc[w] = "attendance_update_save"
  /\ LET others == {b \in attendances : b.id # req[w].old.id}
     IN IF \E b \in others : b.member = req[w].new.member /\ b.date = req[w].new.date
          THEN /\ resp' = [resp EXCEPT ![w] = [status |-> 500]]
               /\ UNCHANGED attendances
          ELSE /\ attendances' = IF others = attendances
                                   THEN attendances
                                   ELSE others \cup {req[w].new}
               /\ resp' = [resp EXCEPT ![w] = [status |-> 200]]
  /\ pc' = [pc EXCEPT ![w] = "idle"]
  /\ UNCHANGED <<today, members, payments, req, loc, dec>>

AttendanceUpdateStep(w) ==
  \/ AttendanceUpdateValidate(w)
  \/ AttendanceUpdateSave(w)

\* ------------------------------------ SchoolStudentViewSet.renew_subscription
\* The school view's own assignments to the student after the Payment.
school_renew_assign(mem, win) ==
  [mem EXCEPT !.subscription_start = win[1],
              !.subscription_end = win[2],
              !.amount_paid = 0]

\* POST /school/students/{id}/renew_subscription/, one request at a time:
\* the optional change of plan, the window and the amount as in the member
\* view, the Payment with Payment.save's write of the student, then
\* member.save(update_fields=[activity_type, membership_plan,
\* subscription_start, subscription_end, amount_paid]).
SchoolRenew(w) ==
  /\ pc[w] = "idle"
  /\ RoomForPayment(w)
  /\ \E m \in MemberIds, plan_id \in PlanIds \cup {"none"},
        custom \in -1..MaxAmount :
       /\ members[m] # NoMember
       /\ LET mem == IF plan_id # "none"
                       THEN [members[m] EXCEPT !.membership_plan = plan_id]
                       ELSE members[m]
              plan == mem.membership_plan
              win == renew_window(mem, plan, today)
              amt == renew_amount(plan, custom)
              paid == IF Plan[plan].price > 0
                        THEN payment_save(mem, win[1], win[2], amt)
                        ELSE mem
              out == school_renew_assign(paid, win)
          IN /\ win[1] <= MaxDay + 1
             /\ req' = [req EXCEPT ![w] =
                          [op |-> "school_renew", member |-> m, plan |-> plan,
                           period_start |-> win[1], period_end |-> win[2],
                           amount |-> amt, plan_id |-> plan_id,
                           custom |-> custom]]
             /\ payments' = IF Plan[plan].price > 0
                              THEN payments \cup {payment_row(m, win[1], win[2], amt)}
                              ELSE payments
             /\ members' = [members EXCEPT ![m] =
                              [save_ledger_fields(@, out) EXCEPT
                                 !.membership_plan = out.membership_plan]]
  /\ resp' = [resp EXCEPT ![w] = [status |-> 200]]
  /\ UNCHANGED <<today, attendances, pc, loc, dec>>

\* ------------------- PaymentViewSet.update / destroy, MemberViewSet.destroy
\* Payment.save of a row that already has a primary key (is_new is false):
\* the period test is made again, the accumulation is skipped.
payment_resave(mem, ps, pe, amt) ==
  LET is_new_period == \/ mem.subscription_start # ps
                       \/ mem.subscription_end # pe
  IN IF is_new_period
       THEN [mem EXCEPT !.subscription_start = ps,
                        !.subscription_end = pe,
                        !.amount_paid = amt]
       ELSE mem

\* Rows with equal columns are numbered 1..k; an update or a delete of one of
\* them takes the last, which keeps the numbering without gaps.
Newest(p) ==
  p.n = Cardinality({q \in payments : /\ q.member = p.member
                                       /\ q.period_start = p.period_start
                                       /\ q.period_end = p.period_end
                                       /\ q.amount = p.amount})

\* PATCH /payments/{id}/ {amount}: PaymentSerializer.validate, then
\* serializer.save() -> Payment.save on the stored row and its member.
PaymentUpdate(w) ==
  /\ pc[w] = "idle"
  /\ \E p \in payments, a \in 0..MaxAmount :
       /\ Newest(p)
       /\ req' = [req EXCEPT ![w] =
                    [op |-> "payment_update", member |-> p.member,
                     payment |-> p, amount |-> a]]
       /\ IF a <= 0
            THEN /\ resp' = [resp EXCEPT ![w] = [status |-> 400]]
                 /\ UNCHANGED <<members, payments>>
            ELSE LET row == IF a = p.amount THEN p
                            ELSE payment_row(p.member, p.period_start, p.period_end, a)
                     mem == payment_resave(members[p.member], p.period_start,
                                           p.period_end, a)
                 IN /\ payments' = (payments \ {p}) \cup {row}
                    /\ members' = [members EXCEPT ![p.member] =
                                     save_ledger_fields(@, mem)]
                    /\ resp' = [resp EXCEPT ![w] = [status |-> 200]]
  /\ UNCHANGED <<today, attendances, pc, loc, dec>>

\* DELETE /payments/{id}/: the row goes, the member is not touched.  A delete
\* makes room for one more payment; the guard on amount_paid keeps the
\* accumulated total, which deletes never lower, within the bounds.
PaymentDestroy(w) ==
  /\ pc[w] = "idle"
  /\ \E p \in payments :
       /\ Newest(p)
       /\ members[p.member].amount_paid <= MaxPayments * MaxAmount
       /\ req' = [req EXCEPT ![w] =
                    [op |-> "payment_destroy", member |-> p.member, payment |-> p]]
       /\ payments' = payments \ {p}
  /\ resp' = [resp EXCEPT ![w] = [status |-> 204]]
  /\ UNCHANGED <<today, members, attendances, pc, loc, dec>>

\* DELETE /members/{id}/: MemberAccessPolicy lets the admin through, then
\* perform_destroy deletes the payments, the attendances and the member.
MemberDestroy(w) ==
  /\ pc[w] = "idle"
  /\ \E m \in MemberIds, role \in Roles :
       /\ members[m] # NoMember
       /\ req' = [req EXCEPT ![w] =
                    [op |-> "member_destroy", member |-> m, role |-> role]]
       /\ IF role # "ADMIN"
            THEN /\ resp' = [resp EXCEPT ![w] = [status |-> 403]]
                 /\ UNCHANGED <<members, payments, attendances>>
            ELSE /\ payments' = {p \in payments : p.member # m}
                 /\ attendances' = {a \in attendances : a.member # m}
                 /\ members' = [members EXCEPT ![m] = NoMember]
                 /\ resp' = [resp EXCEPT ![w] = [status |-> 204]]
  /\ UNCHANGED <<today, pc, loc, dec>>

\* ---------------------------------------------------------- DashboardView.get
\* payment_date of a stored payment: enrollment, renewal and add_payment stamp
\* timezone.now().date(), the client of POST /payments/ sends the day's
\* date, and the date stands still.
payment_date(p) == today

\* Payment.objects.filter(payment_date=today).aggregate(Sum('amount')) or 0
income_today_query == SumAmounts({p \in payments : payment_date(p) = today})

\* financials.income_today: the query for an admin, 0 for staff.
income_today(role) ==
  IF role = "ADMIN" THEN income_today_query ELSE 0

\* overview.attendance_today, for a caller whose member queryset is not
\* filtered (an admin, or staff without allowed_gender).
attendance_today == Cardinality({a \in attendances : a.date = today})

\* GET /reports/dashboard/ by an admin or a staff user.
DashboardGet(w) ==
  /\ pc[w] = "idle"
  /\ \E role \in Roles :
       /\ req' = [req EXCEPT ![w] = [op |-> "dashboard", role |-> role]]
       /\ resp' = [resp EXCEPT ![w] =
                     [status |-> 200, income_today |-> income_today(role),
                      attendance_today |-> attendance_today]]
  /\ UNCHANGED <<today, members, payments, attendances, pc, loc, dec>>

\* -------------------------------------------------- check-in specification
\* Member rows as enrollment, payments, the member API and the admin site
\* leave them.
MemberRows ==
  [is_active : BOOLEAN,
   subscription_start : {NoDate, 0},
   subscription_end : {NoDate, 0, MaxDay},
   amount_paid : 0..(MaxAmount + 1),
   membership_plan : PlanIds,
   activity_type : {"gym"},
   insurance_paid : BOOLEAN]

\* One row of each kind the engine tells apart: admitted, in debt, suspended,
\* expired, never paid.
SampleRow(active, end, paid) ==
  [is_active |-> active,
   subscription_start |-> IF end = NoDate THEN NoDate ELSE 0,
   subscription_end |-> end,
   amount_paid |-> paid,
   membership_plan |-> "paid",
   activity_type |-> Plan["paid"].activity_type,
   insurance_paid |-> TRUE]

SampleRows ==
  {SampleRow(TRUE, MaxDay, Plan["paid"].price),
   SampleRow(TRUE, MaxDay, 0),
   SampleRow(FALSE, MaxDay, Plan["paid"].price),
   SampleRow(TRUE, 0, Plan["paid"].price),
   SampleRow(TRUE, NoDate, 0)}

InitTables(rows) ==
  /\ today = MaxDay
  /\ members \in [MemberIds -> rows]
  /\ payments = {}
  /\ attendances = {}
  /\ pc = [w \in Threads |-> "idle"]
  /\ req = [w \in Threads |-> NoReq]
  /\ loc = [w \in Threads |-> NoMember]
  /\ dec = [w \in Threads |-> NoDecision]
  /\ resp = [w \in Threads |-> NoResp]

CheckInStep(w) ==
  \/ CheckInFetch(w)
  \/ CheckInViewEvaluate(w)
  \/ PerformCheckinEvaluate(w)
  \/ PerformCheckinCreate(w)

AttendanceStep(w) ==
  \/ AttendanceValidate(w)
  \/ AttendanceSave(w)

NextCheckin ==
  \/ \E w \in Threads : CheckInStep(w)
  \/ \E w \in Threads : AttendanceStep(w)

InitCheckin == InitTables(SampleRows)

SpecCheckin == InitCheckin /\ [][NextCheckin]_vars

\* One request at a time: the same handlers served by a single thread.
NextCheckinSeq ==
  \/ CheckInStep(1)
  \/ AttendanceStep(1)

InitCheckinSeq == InitTables(MemberRows)

SpecCheckinSeq == InitCheckinSeq /\ [][NextCheckinSeq]_vars

\* ---------------------------------------------------- ledger specification
PaymentStep(w) ==
  \/ PaymentCreate(w)
  \/ AddPayment(w)
  \/ AddPaymentRespond(w)
  \/ RenewFetch(w)
  \/ PaymentInsert(w)
  \/ PaymentMemberSave(w)
  \/ RenewMemberSave(w)

EnrollStep(w) ==
  \/ EnrollSave(w)
  \/ EnrollReset(w)

\* An empty gym, one request at a time.
InitLedgerSeq ==
  /\ today = MaxDay
  /\ members = [m \in MemberIds |-> NoMember]
  /\ payments = {}
  /\ attendances = {}
  /\ pc = [w \in Threads |-> "idle"]
  /\ req = [w \in Threads |-> NoReq]
  /\ loc = [w \in Threads |-> NoMember]
  /\ dec = [w \in Threads |-> NoDecision]
  /\ resp = [w \in Threads |-> NoResp]

NextLedgerSeq ==
  \/ EnrollStep(1)
  \/ PaymentStep(1)

SpecLedgerSeq == InitLedgerSeq /\ [][NextLedgerSeq]_vars

\* One request at a time, with member writes that may fail.
NextLedgerFaults ==
  \/ NextLedgerSeq
  \/ PaymentMemberSaveFails(1)

SpecLedgerFaults == InitLedgerSeq /\ [][NextLedgerFaults]_vars

\* The gym after the enrollment of a member on the priced plan, with a
\* window that has lapsed or one that runs; payment requests on both threads.
EnrolledRow(start) ==
  [is_active |-> TRUE,
   subscription_start |-> start,
   subscription_end |-> start + Plan["paid"].duration_days,
   amount_paid |-> Plan["paid"].price,
   membership_plan |-> "paid",
   activity_type |-> Plan["paid"].activity_type,
   insurance_paid |-> FALSE]

InitLedger ==
  /\ today = MaxDay
  /\ \E start \in {0, MaxDay} :
       /\ members = [m \in MemberIds |-> EnrolledRow(start)]
       /\ payments = {[member |-> m, period_start |-> start,
                       period_end |-> start + Plan["paid"].duration_days,
                       amount |-> Plan["paid"].price, n |-> 1] : m \in MemberIds}
  /\ attendances = {}
  /\ pc = [w \in Threads |-> "idle"]
  /\ req = [w \in Threads |-> NoReq]
  /\ loc = [w \in Threads |-> NoMember]
  /\ dec = [w \in Threads |-> NoDecision]
  /\ resp = [w \in Threads |-> NoResp]

NextLedger == \E w \in Threads : PaymentStep(w)

SpecLedger == InitLedger /\ [][NextLedger]_vars

\* Renewals, one at a time, of member rows as enrollment, payments, the
\* member API and the admin site leave them.
RenewStep(w) ==
  \/ RenewFetch(w)
  \/ PaymentInsert(w)
  \/ PaymentMemberSave(w)
  \/ RenewMemberSave(w)

NextRenewSeq == RenewStep(1)

SpecRenewSeq == InitTables(MemberRows) /\ [][NextRenewSeq]_vars

\* Enrollment, payments and the member API, one request at a time.
NextMemberOps ==
  \/ NextLedgerSeq
  \/ MemberStep(1)

SpecMemberOps == InitLedgerSeq /\ [][NextMemberOps]_vars

\* The attendance endpoints, one request at a time: smart check-in, the
\* creation of rows and their updates.
NextAttendanceOps ==
  \/ CheckInStep(1)
  \/ AttendanceStep(1)
  \/ AttendanceUpdateStep(1)

SpecAttendanceOps == InitCheckin /\ [][NextAttendanceOps]_vars

\* The ledger of an enrolled member with the update and delete endpoints,
\* one request at a time.
NextPaymentOps ==
  \/ PaymentStep(1)
  \/ PaymentUpdate(1)
  \/ PaymentDestroy(1)
  \/ MemberDestroy(1)

SpecPaymentOps == InitLedger /\ [][NextPaymentOps]_vars

\* Enrollment, payments, check-ins and the dashboard, one request at a time.
NextDashboard ==
  \/ NextLedgerSeq
  \/ CheckInStep(1)
  \/ DashboardGet(1)

SpecDashboard == InitLedgerSeq /\ [][NextDashboard]_vars

\* Renewals of both views, one request at a time.
NextSchoolRenew ==
  \/ RenewStep(1)
  \/ SchoolRenew(1)

SpecSchoolRenew == InitTables(MemberRows) /\ [][NextSchoolRenew]_vars

\* Enrollment, renewals and member updates that name an activity type or a
\* plan, one request at a time.
NextCatalog ==
  \/ EnrollStep(1)
  \/ RenewStep(1)
  \/ RenewFetchActivity(1)
  \/ MemberUpdateCatalog(1)
  \/ MemberUpdateSave(1)

SpecCatalog == InitLedgerSeq /\ [][NextCatalog]_vars

\* Ad-hoc payments for members in every state, one request at a time.
NextAddPayment ==
  \/ AddPayment(1)
  \/ PaymentInsert(1)
  \/ PaymentMemberSave(1)
  \/ AddPaymentRespond(1)

SpecAddPayment == InitTables(MemberRows) /\ [][NextAddPayment]_vars

\* Renewals on one thread and check-ins on the other, never at the same
\* time: a request starts when the other thread is idle.
RenewThenStep == pc[2] = "idle" /\ RenewStep(1)

CheckinAfterStep == pc[1] = "idle" /\ CheckInStep(2)

NextRenewCheckin ==
  \/ RenewThenStep
  \/ CheckinAfterStep

SpecRenewCheckin == InitTables(MemberRows) /\ [][NextRenewCheckin]_vars

\* ------------------------------------------------------------------ claims
RowsOf(m, day) == {a \in attendances : a.member = m /\ a.date = day}

\* A check-in request that has been answered.
Answered(w) == pc[w] = "idle" /\ req[w].op = "checkin"

\* C3: at most one Attendance row exists for any (member, date) pair, in
\* every interleaving of concurrent check-ins and direct attendance creation.
C3_OneRowPerMemberDay ==
  \A a, b \in attendances :
    (a.member = b.member /\ a.date = b.date) => a = b

\* C3 witness: a direct insert that passed validation lost the race for the
\* day's row and was refused by the unique index.
C3_Witness ==
  \E w \in Threads :
    /\ pc[w] = "idle"
    /\ req[w].op = "attendance_create"
    /\ resp[w].status = 500
    /\ Cardinality(RowsOf(req[w].member, req[w].date)) = 1

\* C4: when a row exists for (member, today) as a check-in request arrives,
\* the request is answered blocked / already_checked_in and writes no row,
\* whatever the member's state, the override flag, its reason and the caller.
C4_SecondCheckinBlocked ==
  \A w \in Threads :
    (Answered(w) /\ req[w].row_at_start) =>
      /\ resp[w].status = 200
      /\ resp[w].result = "blocked"
      /\ resp[w].reason = "already_checked_in"
      /\ resp[w].attendance_id = NoId
      /\ Cardinality(RowsOf(req[w].member, today)) = 1

\* C4 witness: an admin override with a reason, for a suspended member who
\* already has today's row, has been answered.
C4_Witness ==
  \E w \in Threads :
    /\ Answered(w)
    /\ req[w].row_at_start
    /\ req[w].override
    /\ req[w].override_reason # ""
    /\ req[w].role = "ADMIN"
    /\ ~members[req[w].member].is_active
    /\ resp[w].reason = "already_checked_in"

\* The rule chain as the claim states it: <<result, reason, can_override>> of
\* the first rule that matches, in the fixed order.
RuleMatches(i, mem, checked_in, day) ==
  CASE i = 1 -> checked_in
    [] i = 2 -> ~mem.is_active
    [] i = 3 -> membership_status(mem, day) = "EXPIRED"
    [] i = 4 -> membership_status(mem, day) = "PENDING"
    [] i = 5 -> \/ remaining_debt(mem) > 0
                \/ (Plan[mem.membership_plan].insurance_required /\ ~mem.insurance_paid)
    [] i = 6 -> TRUE

FirstRule(mem, checked_in, day) ==
  CHOOSE i \in 1..6 :
    /\ RuleMatches(i, mem, checked_in, day)
    /\ \A j \in 1..(i - 1) : ~RuleMatches(j, mem, checked_in, day)

RuleOutcome(i) ==
  CASE i = 1 -> <<"blocked", {"already_checked_in"}, FALSE>>
    [] i = 2 -> <<"blocked", {"inactive"}, TRUE>>
    [] i = 3 -> <<"blocked", {"expired"}, TRUE>>
    [] i = 4 -> <<"blocked", {"pending"}, TRUE>>
    [] i = 5 -> <<"warning", {"debt", "insurance", "debt,insurance"}, FALSE>>
    [] i = 6 -> <<"allowed", {"ok"}, FALSE>>

\* C5: the decision the view's evaluation returns is that of the first
\* matching rule; an inactive, expired or pending member never gets a warning
\* or allowed decision.
C5_RulePriority ==
  [][\A w \in Threads :
       (pc[w] = "view_evaluate" /\ pc'[w] # "view_evaluate") =>
         LET mem == loc[w]
             out == RuleOutcome(FirstRule(mem,
                      is_already_checked_in(req[w].member, today), today))
         IN /\ resp'[w].result = out[1]
            /\ resp'[w].reason \in out[2]
            /\ resp'[w].can_override = out[3]
            /\ (\/ ~mem.is_active
                \/ membership_status(mem, today) # "ACTIVE")
                 => resp'[w].result = "blocked"]_vars

\* C5 witness: a suspended member with debt was answered blocked / inactive.
C5_Witness ==
  \E w \in Threads :
    /\ Answered(w)
    /\ ~req[w].row_at_start
    /\ ~members[req[w].member].is_active
    /\ remaining_debt(members[req[w].member]) > 0
    /\ resp[w].result = "blocked"
    /\ resp[w].reason = "inactive"

\* C6: for a member that passes rules 1-4 the reason names every warning that
\* holds and no other: debt iff the remaining debt is positive, insurance iff
\* the plan requires it and it is unpaid, "debt,insurance" when both hold.
C6_AllWarningsListed ==
  [][\A w \in Threads :
       (/\ pc[w] = "view_evaluate"
        /\ pc'[w] # "view_evaluate"
        /\ ~is_already_checked_in(req[w].member, today)
        /\ loc[w].is_active
        /\ membership_status(loc[w], today) = "ACTIVE") =>
         LET debt == remaining_debt(loc[w]) > 0
             insurance == /\ Plan[loc[w].membership_plan].insurance_required
                          /\ ~loc[w].insurance_paid
         IN /\ (debt /\ insurance) =>
                 (resp'[w].result = "warning" /\ resp'[w].reason = "debt,insurance")
            /\ (debt /\ ~insurance) =>
                 (resp'[w].result = "warning" /\ resp'[w].reason = "debt")
            /\ (~debt /\ insurance) =>
                 (resp'[w].result = "warning" /\ resp'[w].reason = "insurance")
            /\ (~debt /\ ~insurance) =>
                 (resp'[w].result = "allowed" /\ resp'[w].reason = "ok")]_vars

\* C6 witness: a check-in was answered with both warnings.
C6_Witness ==
  \E w \in Threads :
    /\ Answered(w)
    /\ resp[w].result = "warning"
    /\ resp[w].reason = "debt,insurance"
    /\ resp[w].attendance_id # NoId

\* C7: for a decision blocked as inactive, expired or pending and a request
\* with override = true, a row is written iff the caller is an admin and the
\* override reason is not empty; that row has override_used = true and
\* checkin_result = allowed. Otherwise no row is written and the answer keeps
\* result = blocked and the reason, with a new message.
C7_OverrideGating ==
  \A w \in Threads :
    LET m == req[w].member
        out == RuleOutcome(FirstRule(members[m], FALSE, today))
        authorized == req[w].role = "ADMIN" /\ req[w].override_reason # ""
    IN (/\ Answered(w)
        /\ req[w].override
        /\ ~req[w].row_at_start
        /\ out[1] = "blocked") =>
         /\ resp[w].reason \in out[2]
         /\ (resp[w].attendance_id # NoId) <=> authorized
         /\ authorized =>
              /\ resp[w].result = "allowed"
              /\ \E a \in attendances :
                   /\ RowsOf(m, today) = {a}
                   /\ a.id = resp[w].attendance_id
                   /\ a.override_used
                   /\ a.override_reason = req[w].override_reason
                   /\ a.checkin_result = "allowed"
         /\ ~authorized =>
              /\ RowsOf(m, today) = {}
              /\ resp[w].result = "blocked"
              /\ resp[w].message \in
                   {"only admin can override", "override reason is required"}

\* C7 witness: an expired member was admitted on an admin's override.
C7_Witness ==
  \E w \in Threads :
    /\ Answered(w)
    /\ req[w].override
    /\ req[w].role = "ADMIN"
    /\ resp[w].reason = "expired"
    /\ resp[w].attendance_id # NoId

\* C7 witness of the refusal: a staff caller's override of an expired member
\* was answered blocked and wrote nothing.
C7_WitnessRefused ==
  \E w \in Threads :
    /\ Answered(w)
    /\ req[w].override
    /\ req[w].role = "STAFF"
    /\ resp[w].reason = "expired"
    /\ resp[w].message = "only admin can override"
    /\ attendances = {}

\* C8: a check-in without override writes exactly one row iff the engine's
\* decision is not blocked; the row carries the decision's result and reason
\* and override_used = false. A blocked decision without override writes
\* nothing and changes no table.
C8_RowIffNotBlocked ==
  /\ [](\A w \in Threads :
          LET m == req[w].member
              d == evaluate(members[m], req[w].row_at_start, today)
          IN (Answered(w) /\ ~req[w].override) =>
               IF d.result # "blocked"
                 THEN /\ resp[w].attendance_id # NoId
                      /\ resp[w].result = d.result
                      /\ \E a \in attendances :
                           /\ RowsOf(m, today) = {a}
                           /\ a.id = resp[w].attendance_id
                           /\ a.checkin_result = d.result
                           /\ a.checkin_reason = d.reason
                           /\ ~a.override_used
                 ELSE /\ resp[w].attendance_id = NoId
                      /\ resp[w].result = "blocked"
                      /\ resp[w].reason = d.reason
                      /\ Cardinality(RowsOf(m, today)) =
                           IF req[w].row_at_start THEN 1 ELSE 0)
  /\ [][\A w \in Threads :
          (/\ pc[w] # "idle"
           /\ pc'[w] # pc[w]
           /\ req[w].op = "checkin"
           /\ ~req[w].override
           /\ evaluate(members[req[w].member], req[w].row_at_start, today).result
                = "blocked") =>
            UNCHANGED <<members, payments, attendances>>]_vars

\* C8 witness: a member in debt, checked in without override, has a row
\* stored as warning.
C8_Witness ==
  \E w \in Threads, a \in attendances :
    /\ Answered(w)
    /\ ~req[w].override
    /\ a.id = resp[w].attendance_id
    /\ a.checkin_result = "warning"
    /\ a.checkin_reason = "debt"

\* C9 (as claimed): of two check-in requests for one member that both arrived
\* before the day's row existed, exactly one writes the row and the other is
\* answered blocked / already_checked_in with a null attendance_id.
C9_LoserIsBlocked ==
  \A v, w \in Threads :
    LET m == req[v].member IN
    (/\ v # w
     /\ Answered(v) /\ Answered(w)
     /\ req[w].member = m
     /\ ~req[v].row_at_start /\ ~req[w].row_at_start
     /\ ~req[v].override /\ ~req[w].override
     /\ evaluate(members[m], FALSE, today).result # "blocked"
     /\ \A a \in RowsOf(m, today) : a.checkin_reason # ""
     /\ resp[v].attendance_id # NoId) =>
       /\ resp[w].status = 200
       /\ resp[w].attendance_id = NoId
       /\ resp[w].result = "blocked"
       /\ resp[w].reason = "already_checked_in"


\* ---- ledger claims
Quiescent == \A w \in Threads : pc[w] = "idle"

WindowPayments(m, ps, pe) ==
  {p \in payments : p.member = m /\ p.period_start = ps /\ p.period_end = pe}

CurrentPayments(m) ==
  WindowPayments(m, members[m].subscription_start, members[m].subscription_end)

\* C1: between requests, for every member, the amounts of the member's
\* Payments whose window is the member's current window sum to exactly
\* the member's amount_paid.
C1_Reconciled ==
  Quiescent =>
    \A m \in MemberIds :
      members[m] # NoMember =>
        SumAmounts(CurrentPayments(m)) = members[m].amount_paid

\* C2: the member write that ends the creation of a Payment of amount a for
\* window (ps, pe) leaves the window as it was and amount_paid larger by
\* exactly a when (ps, pe) was the member's window, and otherwise leaves the
\* window (ps, pe) and amount_paid exactly a.
C2_AccumulateOrReset ==
  [][\A w \in Threads :
       (pc[w] = "payment_member_save" /\ pc'[w] # "payment_member_save") =>
         LET old == members[req[w].member]
             new == members'[req[w].member]
             ps == req[w].period_start
             pe == req[w].period_end
         IN IF old.subscription_start = ps /\ old.subscription_end = pe
              THEN /\ new.subscription_start = old.subscription_start
                   /\ new.subscription_end = old.subscription_end
                   /\ new.amount_paid = old.amount_paid + req[w].amount
              ELSE /\ new.subscription_start = ps
                   /\ new.subscription_end = pe
                   /\ new.amount_paid = req[w].amount]_vars

\* A debt payment has been added to a window that already held a Payment,
\* and a Payment for another window has replaced a balance.
C2_Witness ==
  \E w \in Threads :
    /\ pc[w] = "idle"
    /\ req[w].op = "add_payment"
    /\ resp[w].status = 201
    /\ Cardinality(CurrentPayments(req[w].member)) >= 2
    /\ members[req[w].member].amount_paid = req[w].base.amount_paid + req[w].amount
    /\ req[w].base.amount_paid > 0

C2_WitnessReset ==
  \E w \in Threads :
    /\ pc[w] = "idle"
    /\ req[w].op = "payment"
    /\ resp[w].status = 201
    /\ req[w].base.subscription_start # req[w].period_start
    /\ req[w].base.amount_paid > req[w].amount
    /\ members[req[w].member].amount_paid = req[w].amount

\* Request r got as far as recording a Payment.
RecordsPayment(r) ==
  /\ r.op \in {"payment", "add_payment", "renew"}
  /\ r.amount > 0
  /\ Plan[r.plan].price > 0 \/ r.op # "renew"

LedgerFields(row) ==
  <<row.subscription_start, row.subscription_end, row.amount_paid>>

\* The member row that request r leaves when it runs with no other request
\* in flight, starting from row.
run_alone(r, row, day) ==
  CASE r.op = "payment" ->
         IF r.amount <= 0 THEN row
         ELSE save_ledger_fields(row,
                payment_save(row, r.period_start, r.period_end, r.amount))
    [] r.op = "add_payment" ->
         LET win == add_payment_window(row, day)
         IN IF r.amount <= 0 THEN row
            ELSE save_ledger_fields(row,
                   payment_save(row, win[1], win[2], r.amount))
    [] r.op = "renew" ->
         LET mem == IF r.plan_id # "none"
                      THEN [row EXCEPT !.membership_plan = r.plan_id]
                      ELSE row
             plan == mem.membership_plan
             win == renew_window(mem, plan, day)
             amt == renew_amount(plan, r.custom)
             paid == payment_save(mem, win[1], win[2], amt)
         IN IF Plan[plan].price > 0
              THEN IF r.custom # 0
                     THEN save_ledger_fields(row, paid)
                     ELSE renew_assign(paid, win, plan, amt)
              ELSE renew_assign(mem, win, plan, amt)

\* C10: when two requests that each record a Payment for the same member
\* have run at the same time, and nothing else with them, the member's
\* window and amount_paid are what one of the two orders of running them one
\* after the other leaves.
C10_SerialOutcome ==
  Quiescent =>
    \A a, b \in Threads :
      ( /\ a # b
        /\ RecordsPayment(req[a])
        /\ RecordsPayment(req[b])
        /\ req[a].member = req[b].member
        /\ req[a].alone /\ ~req[b].alone
        /\ req[a].overlaps = 1 /\ req[b].overlaps = 1 ) =>
        LET base == req[a].base
            now == LedgerFields(members[req[a].member])
        IN \/ now = LedgerFields(run_alone(req[b], run_alone(req[a], base, today), today))
           \/ now = LedgerFields(run_alone(req[a], run_alone(req[b], base, today), today))

\* C11: when the member write of a Payment creation has failed, the Payment
\* row the request inserted is not in the payments table.
C11_FailedWriteNoPayment ==
  \A w \in Threads :
    (pc[w] = "idle" /\ resp[w].status = 500 /\ "payment" \in DOMAIN resp[w]) =>
      resp[w].payment \notin payments

\* C12: a renewal computes its window from the member row it loads: it
\* starts the day after subscription_end when that is set and not before
\* today, else today, and ends plan.duration_days later; the window lies
\* after the old subscription_end, and it is the window the member has when
\* the renewal has run.
C12_RenewWindow ==
  [][\A w \in Threads :
       /\ (pc[w] = "idle" /\ pc'[w] # "idle" /\ req'[w].op = "renew") =>
            LET old == members[req'[w].member]
                ps == req'[w].period_start
                pe == req'[w].period_end
            IN /\ ps = IF old.subscription_end # NoDate /\ old.subscription_end >= today
                         THEN old.subscription_end + 1
                         ELSE today
               /\ pe = ps + Plan[req'[w].plan].duration_days
               /\ old.subscription_end # NoDate =>
                    ps > old.subscription_end /\ pe >= old.subscription_end
       /\ (pc[w] # "idle" /\ pc'[w] = "idle" /\ req[w].op = "renew") =>
            /\ members'[req[w].member].subscription_start = req[w].period_start
            /\ members'[req[w].member].subscription_end = req[w].period_end]_vars

\* A renewal of a running subscription has extended it, and a renewal of a
\* member without dates has started today.
C12_Witness ==
  \E w \in Threads :
    /\ pc[w] = "idle" /\ req[w].op = "renew"
    /\ req[w].base.subscription_end = today
    /\ members[req[w].member].subscription_start = today + 1
    /\ members[req[w].member].subscription_end = today + 1 + Plan[req[w].plan].duration_days

C12_WitnessRestart ==
  \E w \in Threads :
    /\ pc[w] = "idle" /\ req[w].op = "renew"
    /\ req[w].base.subscription_end = NoDate
    /\ members[req[w].member].subscription_start = today

\* C13: a renewal on a plan with a price inserts one Payment, for its new
\* window and of the plan price or of the amount given; the write that
\* follows the insert leaves amount_paid equal to that amount, whatever
\* was paid before; the renewal's last step leaves amount_paid as it is.
RenewsPriced(r) == r.op = "renew" /\ Plan[r.plan].price > 0

C13_RenewPaysOnce ==
  [][\A w \in Threads :
       (pc[w] # "idle" /\ RenewsPriced(req[w])) =>
         /\ req[w].amount = IF req[w].custom # 0 THEN req[w].custom
                                                 ELSE Plan[req[w].plan].price
         /\ pc[w] = "payment_insert" =>
              \E p \in payments' \ payments :
                /\ payments' = payments \cup {p}
                /\ p.member = req[w].member
                /\ p.period_start = req[w].period_start
                /\ p.period_end = req[w].period_end
                /\ p.amount = req[w].amount
         /\ pc[w] # "payment_insert" => payments' = payments
         /\ pc[w] = "payment_member_save" =>
              members'[req[w].member].amount_paid = req[w].amount
         /\ pc[w] = "renew_member_save" =>
              members'[req[w].member].amount_paid = members[req[w].member].amount_paid]_vars

\* A renewal at the plan price has run for a member who had paid before.
C13_Witness ==
  \E w \in Threads :
    /\ pc[w] = "idle" /\ RenewsPriced(req[w])
    /\ resp[w].status = 200
    /\ req[w].base.amount_paid > 0
    /\ members[req[w].member].amount_paid = Plan[req[w].plan].price
    /\ Cardinality(CurrentPayments(req[w].member)) = 1

\* A renewal with an amount in the request has recorded that amount.
C13_WitnessAmount ==
  \E w \in Threads :
    /\ pc[w] = "idle" /\ RenewsPriced(req[w])
    /\ req[w].custom # 0
    /\ req[w].custom # Plan[req[w].plan].price
    /\ members[req[w].member].amount_paid = req[w].custom

\* C14: when the enrollment of a member on a plan with a price has run, the
\* member's window starts on the subscription_start of the request, or
\* today without one, and ends plan.duration_days later; one Payment exists
\* for that window; amount_paid is that Payment's amount, whatever
\* amount_paid the request carried.
C14_EnrollPaysOnce ==
  \A w \in Threads :
    (pc[w] = "idle" /\ req[w].op = "enroll" /\ Plan[req[w].plan].price > 0) =>
      LET mem == members[req[w].member]
          ps == IF req[w].start # NoDate THEN req[w].start ELSE today
          pe == ps + Plan[req[w].plan].duration_days
      IN /\ mem.subscription_start = ps
         /\ mem.subscription_end = pe
         /\ \E p \in payments :
              /\ WindowPayments(req[w].member, ps, pe) = {p}
              /\ p.amount = Plan[req[w].plan].price
              /\ mem.amount_paid = p.amount

\* An enrollment whose request carried an amount_paid has run.
C14_Witness ==
  \E w \in Threads :
    /\ pc[w] = "idle" /\ req[w].op = "enroll" /\ resp[w].status = 201
    /\ Plan[req[w].plan].price > 0
    /\ req[w].base.amount_paid > 0
    /\ req[w].start # NoDate
    /\ members[req[w].member].amount_paid = Plan[req[w].plan].price

\* C15: the window and amount_paid of an enrolled member change only in
\* the member write that ends the creation of a Payment for that member.
C15_OnlyPaymentsMoveLedger ==
  [][\A m \in MemberIds :
       ( /\ members[m] # NoMember
         /\ \A w \in Threads : req'[w].op = "enroll" => pc[w] = "idle" /\ pc'[w] = "idle"
         /\ LedgerFields(members'[m]) # LedgerFields(members[m]) ) =>
         \E w \in Threads : pc[w] = "payment_member_save" /\ req[w].member = m]_vars

\* C16: no Payment row has an amount of zero or less.
C16_NoPaymentWithoutAmount ==
  \A p \in payments : p.amount > 0

StatusByEndDate(mem, day) ==
  IF mem.subscription_end # NoDate /\ mem.subscription_end >= day THEN "ACTIVE"
  ELSE IF mem.subscription_start = NoDate /\ mem.subscription_end = NoDate
    THEN "PENDING"
    ELSE "EXPIRED"

C18_StatusByEndDate ==
  \A w \in Threads :
    (Answered(w) /\ ~req[w].override /\ ~req[w].row_at_start) =>
      LET mem == members[req[w].member]
      IN /\ membership_status(mem, today) = StatusByEndDate(mem, today)
         /\ (mem.is_active /\ StatusByEndDate(mem, today) = "EXPIRED") =>
              (resp[w].result = "blocked" /\ resp[w].reason = "expired")

\* C19: a step changes no field of an existing Attendance row other than
\* check_out_time.
C19_RowsKeepTheirFields ==
  [][\A a \in attendances :
       \A b \in attendances' :
         b.id = a.id => [b EXCEPT !.check_out_time = a.check_out_time] = a]_vars

\* C20: no Attendance row exists for a member who was inactive, expired or
\* pending when it was created unless override_used is true (members and the
\* date stand still under the check-in specification, so the member's state
\* at creation is its state now).
C20_RowsComeFromCheckins ==
  \A a \in attendances :
    LET mem == members[a.member]
    IN (~mem.is_active \/ membership_status(mem, today) \in {"EXPIRED", "PENDING"}) =>
         a.override_used

\* C21: every Attendance row with override_used = true has a non-empty
\* override_reason and was recorded by an admin.
C21_OverrideRowsJustified ==
  \A a \in attendances :
    a.override_used => (a.override_reason # "" /\ a.recorded_by = "ADMIN")

\* C22: a Payment is immutable once created: no step changes a column of a
\* stored payment or removes it.
C22_PaymentsImmutable ==
  [][payments \subseteq payments']_vars

\* C23: a member with a Payment referencing it is never hard-deleted, and a
\* delete request for it leaves its payments in place.
C23_NoDeleteWithPayments ==
  [][\A m \in MemberIds :
       (members[m] # NoMember /\ \E p \in payments : p.member = m) =>
         /\ members'[m] # NoMember
         /\ \A w \in Threads :
              (req'[w].op = "member_destroy" /\ req'[w].member = m) =>
                {p \in payments : p.member = m} \subseteq payments']_vars

\* C29: saving a stored Payment again with the values it has leaves the
\* member's subscription_start, subscription_end and amount_paid as they were.
C29_ResaveIdempotent ==
  [][\A w \in Threads :
       ( /\ pc[w] = "idle" /\ pc'[w] = "idle"
         /\ req'[w].op = "payment_update"
         /\ resp'[w].status = 200
         /\ req'[w].amount = req'[w].payment.amount ) =>
         LedgerFields(members'[req'[w].member]) = LedgerFields(members[req'[w].member])]_vars

\* C24: for an admin and for a staff caller alike, the dashboard's
\* income_today is at least the sum of the amounts of today's payments, and
\* attendance_today counts every Attendance row dated today.
C24_DashboardFigures ==
  \A w \in Threads :
    (pc[w] = "idle" /\ req[w].op = "dashboard") =>
      /\ resp[w].income_today >= income_today_query
      /\ resp[w].attendance_today = attendance_today

\* C25: a school renewal leaves subscription_start, subscription_end and
\* amount_paid, and creates the Payments, that the member renewal leaves and
\* creates for the same row, plan, amount and date.
C25_SchoolRenewAsMember ==
  [][\A w \in Threads :
       (pc[w] = "idle" /\ pc'[w] = "idle" /\ req'[w].op = "school_renew") =>
         LET m == req'[w].member
             r == [op |-> "renew", plan_id |-> req'[w].plan_id,
                   custom |-> req'[w].custom]
             plan == req'[w].plan
             win == renew_window(members[m], plan, today)
         IN /\ LedgerFields(members'[m]) = LedgerFields(run_alone(r, members[m], today))
            /\ payments' \ payments =
                 IF Plan[plan].price > 0
                   THEN {payment_row(m, win[1], win[2], renew_amount(plan, req'[w].custom))}
                   ELSE {}]_vars

\* C26: a member's membership_plan belongs to the member's activity_type.
C26_PlanOfActivity ==
  \A m \in MemberIds :
    members[m] # NoMember =>
      Plan[members[m].membership_plan].activity_type = members[m].activity_type

\* C27: an answered check-in is consistent with what it wrote, in every
\* interleaving: a non-null attendance_id is the id of a stored row, and an
\* answer with a null attendance_id has result blocked.
C27_AnswerMatchesWrite ==
  \A w \in Threads :
    (Answered(w) /\ resp[w].status = 200) =>
      /\ resp[w].attendance_id # NoId =>
           \E a \in attendances : a.id = resp[w].attendance_id
      /\ resp[w].attendance_id = NoId => resp[w].result = "blocked"

\* C28: an accepted add_payment leaves the member's subscription_start,
\* subscription_end and membership status as they were and raises amount_paid
\* by exactly the amount paid.
C28_AddPaymentKeepsWindow ==
  \A w \in Threads :
    (pc[w] = "idle" /\ req[w].op = "add_payment" /\ resp[w].status = 201) =>
      LET mem == members[req[w].member]
          base == req[w].base
      IN /\ mem.subscription_start = base.subscription_start
         /\ mem.subscription_end = base.subscription_end
         /\ membership_status(mem, today) = membership_status(base, today)
         /\ mem.amount_paid = base.amount_paid + req[w].amount

\* C30: a check-in that follows a successful renewal of an active member
\* with no row for today is never answered blocked / expired or blocked /
\* pending.
C30_RenewalUnblocks ==
  [][( /\ pc[2] # "idle" /\ pc'[2] = "idle"
       /\ req[2].op = "checkin"
       /\ ~req[2].row_at_start
       /\ pc[1] = "idle" /\ req[1].op = "renew" /\ resp[1].status = 200
       /\ req[1].member = req[2].member
       /\ members[req[2].member].is_active ) =>
       ~(resp'[2].result = "blocked" /\ resp'[2].reason \in {"expired", "pending"})]_vars

\* C30 witness: a member who was expired before a renewal on the free plan
\* has been admitted without override.
C30_Witness ==
  /\ pc[1] = "idle" /\ req[1].op = "renew" /\ resp[1].status = 200
  /\ Plan[req[1].plan].price = 0
  /\ membership_status(req[1].base, today) = "EXPIRED"
  /\ Answered(2) /\ ~req[2].override
  /\ req[2].member = req[1].member
  /\ resp[2].attendance_id # NoId

\* C30 witness: a member who was pending before a renewal at the plan price
\* has been admitted without override.
C30_WitnessPending ==
  /\ pc[1] = "idle" /\ req[1].op = "renew" /\ resp[1].status = 200
  /\ Plan[req[1].plan].price > 0
  /\ membership_status(req[1].base, today) = "PENDING"
  /\ Answered(2) /\ ~req[2].override
  /\ req[2].member = req[1].member
  /\ resp[2].attendance_id # NoId

====
